---- MODULE Spec2Model ----
(***************************************************************************)
(* Live pipeline of tv-ad-monitoring (src/app.py): the main thread (run),  *)
(* the websocket thread (on_open / on_message / on_error / on_close), the  *)
(* capture thread (stream_audio) and the checkpoint thread                 *)
(* (auto_save_loop), with the two locks, the cancellation flag, the        *)
(* transcript buffer, the raw-audio buffer and the files they write.       *)
(*                                                                         *)
(* Strings that the code trims or splits are sequences of one-character    *)
(* strings.  A record's 'timestamp' (datetime.now() at handling time) is   *)
(* the ordinal of the record among those committed: on_message runs        *)
(* serially on the websocket thread, so the ordinal identifies the record. *)
(* Time is read by the program only in on_open (line 90) and at a poll of  *)
(* auto_save_loop (line 262), so the clock advances in the poll step.      *)
(*                                                                         *)
(* Batch pipeline (src/stream_monitor.py): run_monitor and process_segment *)
(* with the audio files on disk, the answers of the remote endpoints and   *)
(* the requests made to the sink.                                          *)
(***************************************************************************)
EXTENDS Naturals, Integers, Sequences, FiniteSets, TLC

\* ---------------------------------------------------------------- bounds
MaxTurns == 1       \* final Turns with text handled one at a time
BurstLen == 49      \* final Turns handled back to back in one burst
MaxFrames == 2      \* frames the device delivers
MaxPolls == 1       \* polls of auto_save_loop
MaxEntities == 2    \* entities attached to one Turn
MaxSegments == 2    \* segments run_monitor starts

\* ------------------------------------------------------ program constants
AUTO_SAVE_INTERVAL == 60
AUTO_SAVE_TRANSCRIPT_COUNT == 50
POLL_SLEEP == 5

None == "None"

\* time that can pass between two polls: the sleep itself, or the sleep
\* plus a delay that reaches the time threshold
SleepDurations == {POLL_SLEEP, AUTO_SAVE_INTERVAL}

\* ---------------------------------------------------------- pure helpers
RECURSIVE LStrip(_)
LStrip(s) == IF s # <<>> /\ Head(s) = " " THEN LStrip(Tail(s)) ELSE s

RECURSIVE RStrip(_)
RStrip(s) ==
    IF s # <<>> /\ s[Len(s)] = " " THEN RStrip(SubSeq(s, 1, Len(s) - 1)) ELSE s

\* str.strip()
Strip(s) == RStrip(LStrip(s))

\* len(transcript.split()): the number of maximal runs of non-blank characters
WordCount(s) ==
    Cardinality({i \in 1..Len(s) : s[i] # " " /\ (i = 1 \/ s[i - 1] = " ")})

\* line 155 compared as written, without lower()
LowerIdentity(t) == t

\* str.lower() on the entity types the peer sends
Lower(t) ==
    CASE t = "Organization" -> "organization"
      [] t = "BRAND"        -> "brand"
      [] t = "PRODUCT"      -> "product"
      [] t = "Company"      -> "company"
      [] t = "PERSON"       -> "person"
      [] OTHER              -> t

BrandTypes == {"organization", "product", "brand", "company"}

\* lines 153-161: the brand list derived from the entities of a Turn
RECURSIVE Brands(_)
Brands(entities) ==
    IF entities = <<>> THEN <<>>
    ELSE LET e == Head(entities)
             entity_type == Lower(e.entity_type)
         IN  IF entity_type \in BrandTypes
             THEN <<[name |-> e.text, type |-> entity_type,
                     confidence |-> e.confidence]>> \o Brands(Tail(entities))
             ELSE Brands(Tail(entities))

\* line 151: only non-empty formatted transcripts are committed
CommitsUnformatted(msg) == Strip(msg.transcript) # <<>>

Commits(msg) == msg.turn_is_formatted /\ Strip(msg.transcript) # <<>>

\* lines 164-171
TranscriptEntry(msg, ts, sid) ==
    [timestamp  |-> ts,
     session_id |-> sid,
     transcript |-> msg.transcript,
     brands     |-> Brands(msg.entities),
     entities   |-> msg.entities,
     word_count |-> WordCount(msg.transcript)]

\* lines 291-300: the artifact save_json_file builds under the lock
OutputData(data, final, sid) ==
    [session_id        |-> sid,
     total_transcripts |-> Len(data),
     is_final          |-> final,
     transcripts       |-> data]

\* line 175: transcript_data.append(transcript_entry)
Prepended(data, entry) == <<entry>> \o data

Appended(data, entry) == Append(data, entry)

\* lines 311-315: the buffer and the count after a write that succeeded
FlushedDataAlways(data, final) == <<>>

FlushedData(data, final) == IF final THEN data ELSE <<>>

FlushedCountKept(count, final) == count

FlushedCount(count, final) == IF final THEN count ELSE 0

\* output_data before save_json_file has built one
NoOutput == OutputData(<<>>, FALSE, None)

\* lines 263-269
ShouldSaveStrict(cur, last, count) ==
    (cur - last > AUTO_SAVE_INTERVAL) \/ (count >= AUTO_SAVE_TRANSCRIPT_COUNT)

ShouldSave(cur, last, count) ==
    (cur - last >= AUTO_SAVE_INTERVAL) \/ (count >= AUTO_SAVE_TRANSCRIPT_COUNT)

\* ------------------------------------------------------------ the inputs
Acme == [entity_type |-> "Organization", text |-> "Acme", confidence |-> 1]
Paris == [entity_type |-> "location", text |-> "Paris", confidence |-> 1]

Turn(t, f, e) ==
    [type |-> "Turn", transcript |-> t, turn_is_formatted |-> f,
     entities |-> e]

\* what the peer sends: Begin, Termination, partial Turns, final Turns with
\* empty or blank text, and final Turns with text
Messages ==
    {[type |-> "Begin", id |-> "s1"],
     [type |-> "Termination"],
     Turn(<<"a">>, FALSE, <<>>),
     Turn(<<>>, TRUE, <<>>),
     Turn(<<" ">>, TRUE, <<Acme>>),
     Turn(<<"a">>, TRUE, <<Acme, Paris>>),
     Turn(<<" ", "b", " ", "c">>, TRUE, <<>>)}

BurstMsg == Turn(<<"a">>, TRUE, <<>>)

\* the entities a Turn can carry: each brand type and two other types, in
\* the spellings of lines 153-155 and in other letter cases
EntityTypes ==
    <<"Organization", "PRODUCT", "brand", "Company", "location", "PERSON">>

EntityNames == <<"Acme", "Cola", "Dune", "Elm", "Paris", "Quinn">>

Entities ==
    {[entity_type |-> EntityTypes[i], text |-> EntityNames[i],
      confidence |-> 1] : i \in 1..Len(EntityTypes)}

\* the entity lists of at most n entities
RECURSIVE EntityLists(_)
EntityLists(n) ==
    IF n = 0 THEN {<<>>}
    ELSE EntityLists(n - 1)
         \cup {Append(l, e) : l \in EntityLists(n - 1), e \in Entities}

\* final Turns with text, one for every entity list
EntityMessages == {Turn(<<"a">>, TRUE, e) : e \in EntityLists(MaxEntities)}

BeginMsg == [type |-> "Begin", id |-> "s1"]

Range(s) == {s[i] : i \in 1..Len(s)}

VARIABLES
    now,               \* the wall clock, as last read by the program
    stop_event,
    stream,            \* the global: "open" or None
    audio,             \* the global: "init" or None
    connected,         \* ws_app.sock.connected
    session_id,
    transcript_data,
    transcript_count,
    transcript_lock,   \* the thread holding it, or None
    last_save_time,    \* 0 until on_open sets it
    recorded_frames,   \* the frames, each named by its capture ordinal
    recording_lock,
    mainPc, wsPc, audioPc, savePc,
    ws_output,         \* output_data of save_json_file(final=True)
    sv_output,         \* output_data of save_json_file(final=False)
    current_time,      \* local of auto_save_loop
    audio_data,        \* local of stream_audio (0: none read yet)
    json_files,        \* the checkpoint artifacts written, in order
    wav_files,         \* the raw-audio payloads written, in order
    \* history
    burstDone,
    arrived,           \* every record on_message committed, in order
    frameNo,           \* frames read from the device
    polls,
    clears,            \* non-final flushes that cleared the buffer
    writeFailed,       \* some checkpoint write failed
    closeCalls,        \* stream.close() calls
    terminateCalls,    \* audio.terminate() calls
    opened,            \* on_open ran
    interrupted,       \* KeyboardInterrupt reached run()
    finalFlushRuns,    \* save_json_file(final=True) calls that returned
    wavExportRuns,     \* save_wav_file calls that returned
    lateFrames,        \* frames read, appended, sent with stop_event set
    sinceClear,        \* final Turns with text handled since the last clear
    \* batch mode (src/stream_monitor.py)
    keep_audio_files,  \* KEEP_AUDIO_FILES
    webhook_url,       \* N8N_WEBHOOK_URL is set
    segment_number,
    batchPc,
    disk,              \* the segments whose audio file is on disk
    audio_path,        \* local of process_segment (0: None)
    transcript,        \* local of process_segment
    brands,            \* local of process_segment
    posts,             \* the requests made to the sink, in order
    transcribed,       \* segments captured and transcribed successfully
    outcomes           \* the values process_segment returned, in order

vars == <<now, stop_event, stream, audio, connected, session_id,
          transcript_data, transcript_count, transcript_lock, last_save_time,
          recorded_frames, recording_lock, mainPc, wsPc, audioPc, savePc,
          ws_output, sv_output, current_time, audio_data, json_files,
          wav_files, burstDone, arrived, frameNo, polls, clears,
          writeFailed, closeCalls, terminateCalls, opened, interrupted,
          finalFlushRuns, wavExportRuns, lateFrames, sinceClear,
          keep_audio_files,
          webhook_url, segment_number, batchPc, disk, audio_path, transcript,
          brands, posts, transcribed, outcomes>>

\* variable groups, for UNCHANGED
transcriptVars == <<transcript_data, transcript_count, transcript_lock,
                    sinceClear>>
msgVars == <<session_id, burstDone, arrived>>
audioVars == <<recorded_frames, recording_lock, audioPc, audio_data, frameNo,
               lateFrames>>
saverVars == <<now, last_save_time, savePc, sv_output, current_time, polls,
               clears>>
deviceVars == <<stream, audio, closeCalls, terminateCalls>>
fileVars == <<json_files, wav_files, writeFailed>>
closeVars == <<ws_output, finalFlushRuns, wavExportRuns>>
mainVars == <<mainPc, interrupted>>
batchVars == <<keep_audio_files, webhook_url, segment_number, batchPc, disk,
               audio_path, transcript, brands, posts, transcribed, outcomes>>
liveVars == <<transcriptVars, msgVars, audioVars, saverVars, deviceVars,
              fileVars, closeVars, mainVars, stop_event, connected, wsPc,
              opened>>

\* lines 58-81: the module-level globals
LiveInit ==
    /\ now = 0
    /\ stop_event = FALSE
    /\ stream = None
    /\ audio = None
    /\ connected = FALSE
    /\ session_id = None
    /\ transcript_data = <<>>
    /\ transcript_count = 0
    /\ transcript_lock = None
    /\ last_save_time = 0
    /\ recorded_frames = <<>>
    /\ recording_lock = None
    /\ mainPc = "start"
    /\ wsPc = "unstarted"
    /\ audioPc = "unstarted"
    /\ savePc = "unstarted"
    /\ ws_output = NoOutput
    /\ sv_output = NoOutput
    /\ current_time = 0
    /\ audio_data = 0
    /\ json_files = <<>>
    /\ wav_files = <<>>
    /\ burstDone = FALSE
    /\ arrived = <<>>
    /\ frameNo = 0
    /\ polls = 0
    /\ clears = 0
    /\ writeFailed = FALSE
    /\ closeCalls = 0
    /\ terminateCalls = 0
    /\ opened = FALSE
    /\ interrupted = FALSE
    /\ finalFlushRuns = 0
    /\ wavExportRuns = 0
    /\ lateFrames = [reads |-> 0, appends |-> 0, sends |-> 0]
    /\ sinceClear = 0

\* stream_monitor.py lines 157-227: what extract_brands_with_llama returns,
\* a list or the value of a "brands" key that is no list
BrandList(items) == [kind |-> "list", items |-> items]

NullBrands == [kind |-> "null", items |-> <<>>]

\* the batch program before run_monitor: nothing captured, nothing sent
BatchStart ==
    /\ segment_number = 0
    /\ disk = {}
    /\ audio_path = 0
    /\ transcript = None
    /\ brands = BrandList(<<>>)
    /\ posts = <<>>
    /\ transcribed = {}
    /\ outcomes = <<>>

\* the live program (src/app.py) as started; the batch program is not run
Init ==
    /\ LiveInit
    /\ BatchStart
    /\ keep_audio_files = FALSE
    /\ webhook_url = FALSE
    /\ batchPc = "off"

\* the batch program as started under each configuration (lines 32, 38);
\* the live program is not run
InitBatch ==
    /\ LiveInit
    /\ BatchStart
    /\ keep_audio_files \in BOOLEAN
    /\ webhook_url \in BOOLEAN
    /\ batchPc = "loop"

\* the process has not exited: daemon threads run only while it lives
Running == mainPc # "exit"

\* ------------------------------------------------------------ main thread
\* lines 358-392: open the device, then start the websocket thread
RunOpenStream ==
    /\ mainPc = "start"
    /\ \/ /\ audio' = "init"
          /\ stream' = "open"
          /\ wsPc' = "connecting"
          /\ mainPc' = "wait"
          /\ UNCHANGED terminateCalls
       \/ \* audio.open raised: lines 373-377
          /\ terminateCalls' = terminateCalls + 1
          /\ mainPc' = "exit"
          /\ UNCHANGED <<audio, stream, wsPc>>
    /\ UNCHANGED <<batchVars, now, stop_event, connected, transcriptVars, msgVars,
                   audioVars, last_save_time, savePc, sv_output, current_time,
                   polls, clears, fileVars, closeVars, closeCalls, opened,
                   interrupted>>

\* lines 396-397: the wait loop ends when the websocket thread has ended
RunWaitDone ==
    /\ mainPc = "wait"
    /\ wsPc = "done"
    /\ mainPc' = "finally"
    /\ UNCHANGED <<batchVars, now, stop_event, connected, transcriptVars, msgVars,
                   audioVars, last_save_time, savePc, sv_output, current_time,
                   polls, clears, fileVars, closeVars, deviceVars, opened,
                   interrupted, wsPc>>

\* lines 398-411: Ctrl+C while waiting (the operator interrupts a session
\* whose connection attempt has been answered); the flag is set and, if the
\* socket is connected, {"type": "Terminate"} is sent and the 5 s grace
\* period of line 411 starts ("int_grace")
RunInterrupt ==
    /\ mainPc = "wait"
    /\ wsPc # "connecting"
    /\ stop_event' = TRUE
    /\ interrupted' = TRUE
    /\ mainPc' = IF connected THEN "int_grace" ELSE "int_close"
    /\ UNCHANGED <<batchVars, now, connected, transcriptVars, msgVars, audioVars,
                   last_save_time, savePc, sv_output, current_time, polls,
                   clears, fileVars, closeVars, deviceVars, opened, wsPc>>

\* lines 420-422: an exception other than KeyboardInterrupt reaches run()
\* while it waits; the flag is set and the handler goes on to close the
\* connection (lines 423-424) and to join (line 425) as the interrupt
\* handler does, without sending anything to the peer
RunUnexpected ==
    /\ mainPc = "wait"
    /\ wsPc # "connecting"
    /\ stop_event' = TRUE
    /\ mainPc' = "int_close"
    /\ UNCHANGED <<batchVars, now, connected, transcriptVars, msgVars, audioVars,
                   last_save_time, savePc, sv_output, current_time, polls,
                   clears, fileVars, closeVars, deviceVars, opened,
                   interrupted, wsPc>>

\* lines 414-415 and 423-424: ws_app.close()
RunClose ==
    /\ mainPc \in {"int_grace", "int_close"}
    /\ connected' = FALSE
    /\ mainPc' = "int_join"
    /\ UNCHANGED <<batchVars, now, stop_event, transcriptVars, msgVars, audioVars,
                   last_save_time, savePc, sv_output, current_time, polls,
                   clears, fileVars, closeVars, deviceVars, opened,
                   interrupted, wsPc>>

\* lines 418 and 425: ws_thread.join(timeout=2.0) returns when the thread has ended
\* or when the timeout has passed
RunJoin ==
    /\ mainPc = "int_join"
    /\ mainPc' = "finally"
    /\ UNCHANGED <<batchVars, now, stop_event, connected, transcriptVars, msgVars,
                   audioVars, last_save_time, savePc, sv_output, current_time,
                   polls, clears, fileVars, closeVars, deviceVars, opened,
                   interrupted, wsPc>>

\* lines 429-432: if stream: stream.close()
RunFinallyStream ==
    /\ mainPc = "finally"
    /\ closeCalls' = IF stream # None THEN closeCalls + 1 ELSE closeCalls
    /\ mainPc' = "fin_audio"
    /\ UNCHANGED <<batchVars, now, stop_event, connected, transcriptVars, msgVars,
                   audioVars, last_save_time, savePc, sv_output, current_time,
                   polls, clears, fileVars, closeVars, stream, audio,
                   terminateCalls, opened, interrupted, wsPc>>

\* lines 433-435: if audio: audio.terminate(); run() returns and the
\* process exits, which ends the daemon threads
RunFinallyAudio ==
    /\ mainPc = "fin_audio"
    /\ terminateCalls' =
           IF audio # None THEN terminateCalls + 1 ELSE terminateCalls
    /\ mainPc' = "exit"
    /\ UNCHANGED <<batchVars, now, stop_event, connected, transcriptVars, msgVars,
                   audioVars, last_save_time, savePc, sv_output, current_time,
                   polls, clears, fileVars, closeVars, stream, audio,
                   closeCalls, opened, interrupted, wsPc>>

Main ==
    \/ RunOpenStream \/ RunWaitDone \/ RunInterrupt
    \/ RunClose \/ RunJoin \/ RunFinallyStream \/ RunFinallyAudio

\* ------------------------------------------------------- websocket thread
\* what every websocket-thread step leaves alone unless it says otherwise
wsFrame == <<now, mainVars, current_time, polls, sv_output>>

\* lines 85-131: the handshake succeeded; on_open starts both workers
OnOpen ==
    /\ Running /\ wsPc = "connecting"
    /\ connected' = TRUE
    /\ opened' = TRUE
    /\ last_save_time' = now
    /\ savePc' = "loop"
    /\ audioPc' = "loop"
    /\ wsPc' = "recv"
    /\ UNCHANGED <<batchVars, wsFrame, stop_event, transcriptVars, msgVars,
                   recorded_frames, recording_lock, audio_data, frameNo, lateFrames,
                   clears, deviceVars, fileVars, closeVars>>

\* lines 201-205: on_error sets the flag; run_forever then tears down and
\* calls on_close
OnError ==
    /\ Running /\ wsPc \in {"connecting", "recv"}
    /\ stop_event' = TRUE
    /\ connected' = FALSE
    /\ wsPc' = "cl_json"
    /\ UNCHANGED <<batchVars, wsFrame, transcriptVars, msgVars, audioVars,
                   last_save_time, savePc, clears, deviceVars, fileVars,
                   closeVars, opened>>

\* the connection closed, by the peer or by ws_app.close() (line 415):
\* run_forever calls on_close
OnCloseBegin ==
    /\ Running /\ wsPc = "recv"
    /\ connected' = FALSE
    /\ wsPc' = "cl_json"
    /\ UNCHANGED <<batchVars, wsFrame, stop_event, transcriptVars, msgVars, audioVars,
                   last_save_time, savePc, clears, deviceVars, fileVars,
                   closeVars, opened>>

\* final Turns with text handled one at a time so far
Singles == IF burstDone THEN Len(arrived) - BurstLen ELSE Len(arrived)

\* the peer opens the session with Begin and sends it once
InProtocol(msg) == (msg.type = "Begin") <=> (session_id = None)

\* lines 133-199, one message.  A committed Turn takes transcript_lock and
\* appends (lines 174-175); the count follows in OnMessageCount.
OnMessage(msg) ==
    /\ Running /\ wsPc = "recv" /\ connected
    /\ InProtocol(msg)
    /\ IF msg.type = "Begin"
       THEN /\ session_id' = msg.id
            /\ UNCHANGED <<transcriptVars, arrived, wsPc>>
       ELSE IF msg.type = "Turn" /\ Commits(msg)
       THEN /\ Singles < MaxTurns
            /\ transcript_lock = None
            /\ LET transcript_entry ==
                       TranscriptEntry(msg, Len(arrived) + 1, session_id)
               IN  /\ transcript_data' =
                          Appended(transcript_data, transcript_entry)
                   /\ arrived' = Append(arrived, transcript_entry)
            /\ sinceClear' = sinceClear + 1
            /\ transcript_lock' = "ws"
            /\ wsPc' = "msg_count"
            /\ UNCHANGED <<session_id, transcript_count>>
       ELSE UNCHANGED <<session_id, transcriptVars, arrived, wsPc>>
    /\ UNCHANGED <<batchVars, wsFrame, stop_event, connected, burstDone, audioVars,
                   last_save_time, savePc, clears, deviceVars, fileVars,
                   closeVars, opened>>

\* lines 174-176 and 337-338: the end of a with block releases the lock,
\* whether the block ends normally or by an exception
ReleaseNever(lock) == lock

Release(lock) == None

\* line 176: transcript_count += 1
IncrementedNot(count) == count

Incremented(count) == count + 1

\* line 176 and the end of the with block
OnMessageCount ==
    /\ Running /\ wsPc = "msg_count"
    /\ transcript_count' = Incremented(transcript_count)
    /\ transcript_lock' = Release(transcript_lock)
    /\ wsPc' = "recv"
    /\ UNCHANGED <<batchVars, wsFrame, stop_event, connected, transcript_data,
                   sinceClear, msgVars,
                   audioVars, last_save_time, savePc, clears, deviceVars,
                   fileVars, closeVars, opened>>

\* lines 133-199, the first BurstLen final Turns of a session handled back
\* to back while no other thread takes a step
RECURSIVE BurstEntries(_, _, _)
BurstEntries(n, ts, sid) ==
    IF n = 0 THEN <<>>
    ELSE BurstEntries(n - 1, ts, sid)
         \o <<TranscriptEntry(BurstMsg, ts + n, sid)>>

OnMessageBurst ==
    /\ Running /\ wsPc = "recv" /\ connected
    /\ ~burstDone /\ arrived = <<>> /\ session_id # None
    /\ transcript_lock = None
    /\ burstDone' = TRUE
    /\ LET entries == BurstEntries(BurstLen, Len(arrived), session_id)
       IN  /\ transcript_data' = transcript_data \o entries
           /\ arrived' = arrived \o entries
    /\ transcript_count' = transcript_count + BurstLen
    /\ sinceClear' = sinceClear + BurstLen
    /\ UNCHANGED <<batchVars, wsFrame, stop_event, connected, transcript_lock,
                   session_id, audioVars, last_save_time, savePc, clears,
                   deviceVars, fileVars, closeVars, opened, wsPc>>

\* line 212 with lines 282-283: save_json_file(final=True) returns at once
\* when the buffer is empty
CloseJsonCheck ==
    /\ Running /\ wsPc = "cl_json"
    /\ IF transcript_data = <<>>
       THEN /\ finalFlushRuns' = finalFlushRuns + 1
            /\ wsPc' = "cl_wav"
       ELSE /\ wsPc' = "cl_json_snap"
            /\ UNCHANGED finalFlushRuns
    /\ UNCHANGED <<batchVars, wsFrame, stop_event, connected, transcriptVars, msgVars,
                   audioVars, last_save_time, savePc, clears, deviceVars,
                   fileVars, ws_output, wavExportRuns, opened>>

\* lines 290-300 with final=True: the snapshot under transcript_lock
CloseJsonSnapshot ==
    /\ Running /\ wsPc = "cl_json_snap"
    /\ transcript_lock = None
    /\ ws_output' = OutputData(transcript_data, TRUE, session_id)
    /\ wsPc' = "cl_json_write"
    /\ UNCHANGED <<batchVars, wsFrame, stop_event, connected, transcriptVars, msgVars,
                   audioVars, last_save_time, savePc, clears, deviceVars,
                   fileVars, finalFlushRuns, wavExportRuns, opened>>

\* lines 302-318 with final=True: the write succeeds or raises; the buffer
\* is not cleared (line 312)
CloseJsonWrite ==
    /\ Running /\ wsPc = "cl_json_write"
    /\ \/ /\ json_files' = Append(json_files, ws_output)
          /\ transcript_data' = FlushedData(transcript_data, TRUE)
          /\ transcript_count' = FlushedCount(transcript_count, TRUE)
          /\ UNCHANGED writeFailed
       \/ /\ writeFailed' = TRUE
          /\ UNCHANGED <<json_files, transcript_data, transcript_count>>
    /\ finalFlushRuns' = finalFlushRuns + 1
    /\ wsPc' = "cl_wav"
    /\ UNCHANGED <<batchVars, wsFrame, stop_event, connected, transcript_lock,
                   sinceClear, msgVars, audioVars, last_save_time, savePc,
                   clears, deviceVars, wav_files, ws_output, wavExportRuns,
                   opened>>

\* line 215 with lines 322-331: nothing recorded, or wave.open raises, and
\* save_wav_file returns; otherwise the file is open
CloseWavOpen ==
    /\ Running /\ wsPc = "cl_wav"
    /\ \/ /\ recorded_frames # <<>>
          /\ wsPc' = "cl_wav_lock"
          /\ UNCHANGED wavExportRuns
       \/ /\ wavExportRuns' = wavExportRuns + 1
          /\ wsPc' = "cl_stop"
    /\ UNCHANGED <<batchVars, wsFrame, stop_event, connected, transcriptVars, msgVars,
                   audioVars, last_save_time, savePc, clears, deviceVars,
                   fileVars, ws_output, finalFlushRuns, opened>>

\* line 337: with recording_lock
CloseWavLock ==
    /\ Running /\ wsPc = "cl_wav_lock"
    /\ recording_lock = None
    /\ recording_lock' = "ws"
    /\ wsPc' = "cl_wav_write"
    /\ UNCHANGED <<batchVars, wsFrame, stop_event, connected, transcriptVars, msgVars,
                   recorded_frames, audioPc, audio_data, frameNo, lateFrames,
                   last_save_time, savePc, clears, deviceVars, fileVars,
                   closeVars, opened>>

\* lines 338-341: writeframes(b''.join(recorded_frames)) inside the lock
CloseWavWrite ==
    /\ Running /\ wsPc = "cl_wav_write"
    /\ wav_files' = Append(wav_files, recorded_frames)
    /\ recording_lock' = Release(recording_lock)
    /\ wavExportRuns' = wavExportRuns + 1
    /\ wsPc' = "cl_stop"
    /\ UNCHANGED <<batchVars, wsFrame, stop_event, connected, transcriptVars, msgVars,
                   recorded_frames, audioPc, audio_data, frameNo, lateFrames,
                   last_save_time, savePc, clears, deviceVars, json_files,
                   writeFailed, ws_output, finalFlushRuns, opened>>

\* line 219
CloseSetStop ==
    /\ Running /\ wsPc = "cl_stop"
    /\ stop_event' = TRUE
    /\ wsPc' = "cl_stream"
    /\ UNCHANGED <<batchVars, wsFrame, connected, transcriptVars, msgVars, audioVars,
                   last_save_time, savePc, clears, deviceVars, fileVars,
                   closeVars, opened>>

\* lines 221-224: if stream: stream.close()
CloseStream ==
    /\ Running /\ wsPc = "cl_stream"
    /\ IF stream # None
       THEN /\ closeCalls' = closeCalls + 1
            /\ wsPc' = "cl_stream_none"
       ELSE /\ wsPc' = "cl_audio"
            /\ UNCHANGED closeCalls
    /\ UNCHANGED <<batchVars, wsFrame, stop_event, connected, transcriptVars, msgVars,
                   audioVars, last_save_time, savePc, clears, stream, audio,
                   terminateCalls, fileVars, closeVars, opened>>

\* line 225: stream = None
CloseStreamNone ==
    /\ Running /\ wsPc = "cl_stream_none"
    /\ stream' = None
    /\ wsPc' = "cl_audio"
    /\ UNCHANGED <<batchVars, wsFrame, stop_event, connected, transcriptVars, msgVars,
                   audioVars, last_save_time, savePc, clears, audio,
                   closeCalls, terminateCalls, fileVars, closeVars, opened>>

\* lines 226-227: if audio: audio.terminate()
CloseAudio ==
    /\ Running /\ wsPc = "cl_audio"
    /\ IF audio # None
       THEN /\ terminateCalls' = terminateCalls + 1
            /\ wsPc' = "cl_audio_none"
       ELSE /\ wsPc' = "cl_join"
            /\ UNCHANGED terminateCalls
    /\ UNCHANGED <<batchVars, wsFrame, stop_event, connected, transcriptVars, msgVars,
                   audioVars, last_save_time, savePc, clears, stream, audio,
                   closeCalls, fileVars, closeVars, opened>>

\* line 228: audio = None
CloseAudioNone ==
    /\ Running /\ wsPc = "cl_audio_none"
    /\ audio' = None
    /\ wsPc' = "cl_join"
    /\ UNCHANGED <<batchVars, wsFrame, stop_event, connected, transcriptVars, msgVars,
                   audioVars, last_save_time, savePc, clears, stream,
                   closeCalls, terminateCalls, fileVars, closeVars, opened>>

\* lines 230-231: audio_thread.join(timeout=1.0) returns when the capture
\* thread has ended or the timeout has passed; on_close returns and the
\* websocket thread ends
CloseJoin ==
    /\ Running /\ wsPc = "cl_join"
    /\ wsPc' = "done"
    /\ UNCHANGED <<batchVars, wsFrame, stop_event, connected, transcriptVars, msgVars,
                   audioVars, last_save_time, savePc, clears, deviceVars,
                   fileVars, closeVars, opened>>

\* connection events and the close handling that every session runs
WsSession ==
    \/ OnOpen \/ OnError \/ OnCloseBegin
    \/ CloseJsonCheck \/ CloseWavOpen
    \/ CloseSetStop \/ CloseStream \/ CloseStreamNone
    \/ CloseAudio \/ CloseAudioNone \/ CloseJoin

\* the final flush of a buffer that holds records
WsFinalFlush == CloseJsonSnapshot \/ CloseJsonWrite

\* the export of recorded frames
WsWavExport == CloseWavLock \/ CloseWavWrite

\* message handling
WsMessages ==
    \/ (\E msg \in Messages : OnMessage(msg))
    \/ OnMessageCount \/ OnMessageBurst

\* --------------------------------------------------------- capture thread
\* what every capture-thread step leaves alone
captureFrame == <<now, stop_event, connected, transcriptVars, msgVars,
                  last_save_time, savePc, sv_output, current_time, polls,
                  clears, deviceVars, fileVars, closeVars, mainVars, wsPc,
                  opened>>

\* line 110: the flag as the loop test reads it
StopIgnored(flag) == FALSE

StopRequested(flag) == flag

\* 1 for a step taken with stop_event set
Late == IF stop_event THEN 1 ELSE 0

\* line 110: while not stop_event.is_set()
AudioLoop ==
    /\ Running /\ audioPc = "loop"
    /\ audioPc' = IF StopRequested(stop_event) THEN "done" ELSE "read"
    /\ UNCHANGED <<batchVars, captureFrame, recorded_frames, recording_lock, audio_data,
                   frameNo, lateFrames>>

\* lines 112 and 120-123: the device read; it raises once the stream has
\* been closed or the global is None, and the loop breaks
AudioRead ==
    /\ Running /\ audioPc = "read"
    /\ IF stream = None \/ closeCalls > 0
       THEN /\ audioPc' = "done"
            /\ UNCHANGED <<audio_data, frameNo, lateFrames>>
       ELSE /\ frameNo < MaxFrames
            /\ frameNo' = frameNo + 1
            /\ audio_data' = frameNo + 1
            /\ lateFrames' = [lateFrames EXCEPT !.reads = @ + Late]
            /\ audioPc' = "append"
    /\ UNCHANGED <<batchVars, captureFrame, recorded_frames, recording_lock>>

\* lines 115-116
AudioAppend ==
    /\ Running /\ audioPc = "append"
    /\ recording_lock = None
    /\ recorded_frames' = Append(recorded_frames, audio_data)
    /\ lateFrames' = [lateFrames EXCEPT !.appends = @ + Late]
    /\ audioPc' = "send"
    /\ UNCHANGED <<batchVars, captureFrame, recording_lock, audio_data, frameNo>>

\* lines 119-123: ws.send raises when the socket is closed
AudioSend ==
    /\ Running /\ audioPc = "send"
    /\ lateFrames' = [lateFrames EXCEPT !.sends = @ + Late]
    /\ audioPc' = IF connected THEN "loop" ELSE "done"
    /\ UNCHANGED <<batchVars, captureFrame, recorded_frames, recording_lock, audio_data,
                   frameNo>>

Capture == AudioLoop \/ AudioRead \/ AudioAppend \/ AudioSend

\* ------------------------------------------------------ checkpoint thread
\* what every checkpoint-thread step leaves alone
saverFrame == <<stop_event, connected, msgVars, audioVars, deviceVars,
                wav_files, closeVars, mainVars, wsPc, opened>>

\* line 259
SaverLoop ==
    /\ Running /\ savePc = "loop"
    /\ savePc' = IF stop_event THEN "done" ELSE "sleep"
    /\ UNCHANGED <<batchVars, saverFrame, transcriptVars, now, last_save_time,
                   sv_output, current_time, polls, clears, json_files,
                   writeFailed>>

\* lines 260-272: the sleep ends, the clock is read and the triggers are
\* evaluated, without the lock
SaverPoll ==
    /\ Running /\ savePc = "sleep"
    /\ polls < MaxPolls
    /\ polls' = polls + 1
    /\ \E d \in SleepDurations : now' = now + d
    /\ current_time' = now'
    /\ savePc' = IF /\ ShouldSave(now', last_save_time, transcript_count)
                    /\ transcript_data # <<>>
                 THEN "sv_snap" ELSE "loop"
    /\ UNCHANGED <<batchVars, saverFrame, transcriptVars, last_save_time, sv_output,
                   clears, json_files, writeFailed>>

\* lines 282-300 with final=False: return on an empty buffer, otherwise
\* the snapshot under transcript_lock
SaverSnapshot ==
    /\ Running /\ savePc = "sv_snap"
    /\ IF transcript_data = <<>>
       THEN /\ savePc' = "sv_reset"
            /\ UNCHANGED sv_output
       ELSE /\ transcript_lock = None
            /\ sv_output' = OutputData(transcript_data, FALSE, session_id)
            /\ savePc' = "sv_write"
    /\ UNCHANGED <<batchVars, saverFrame, transcriptVars, now, last_save_time,
                   current_time, polls, clears, json_files, writeFailed>>

\* lines 302-309 and 317-318: the write succeeds or raises
SaverWrite ==
    /\ Running /\ savePc = "sv_write"
    /\ \/ /\ json_files' = Append(json_files, sv_output)
          /\ savePc' = "sv_clear"
          /\ UNCHANGED writeFailed
       \/ /\ writeFailed' = TRUE
          /\ savePc' = "sv_reset"
          /\ UNCHANGED json_files
    /\ UNCHANGED <<batchVars, saverFrame, transcriptVars, now, last_save_time,
                   sv_output, current_time, polls, clears>>

\* lines 312-315: clear the buffer and the count under transcript_lock
SaverClear ==
    /\ Running /\ savePc = "sv_clear"
    /\ transcript_lock = None
    /\ transcript_data' = FlushedData(transcript_data, FALSE)
    /\ transcript_count' = FlushedCount(transcript_count, FALSE)
    /\ clears' = clears + 1
    /\ sinceClear' = 0
    /\ savePc' = "sv_reset"
    /\ UNCHANGED <<batchVars, saverFrame, transcript_lock, now, last_save_time,
                   sv_output, current_time, polls, json_files, writeFailed>>

\* line 273
SaverReset ==
    /\ Running /\ savePc = "sv_reset"
    /\ last_save_time' = current_time
    /\ savePc' = "loop"
    /\ UNCHANGED <<batchVars, saverFrame, transcriptVars, now, sv_output, current_time,
                   polls, clears, json_files, writeFailed>>

Checkpoint ==
    \/ SaverLoop \/ SaverPoll \/ SaverSnapshot \/ SaverWrite \/ SaverClear
    \/ SaverReset

\* ---------------------------------------- batch mode (stream_monitor.py)
\* what transcribe_with_groq returns (lines 121-154): None after a status
\* other than 200, a timeout or any exception; otherwise the text
Transcripts == {None, "", "buy acme"}

NamedBrand == [name |-> "Acme", type |-> "organization"]

UnnamedBrand == [type |-> "organization"]

\* the answers of the chat endpoint: a failed request, a status other than
\* 200, and status 200 with a body of each shape
LlamaResponses ==
    {"timeout", "status_500", "no_choices", "no_json_object", "invalid_json",
     "no_brands_key", "brands_empty", "brands_named", "brands_null",
     "brands_unnamed"}

\* lines 197-227: brands_data.get('brands', []) of the parsed object when
\* the status is 200 and the content holds a JSON object, [] otherwise
ExtractBrands(response) ==
    CASE response = "brands_named"   -> BrandList(<<NamedBrand>>)
      [] response = "brands_unnamed" -> BrandList(<<NamedBrand, UnnamedBrand>>)
      [] response = "brands_null"    -> NullBrands
      [] OTHER                       -> BrandList(<<>>)

\* lines 285-288: len(brands) raises on a value that is no list, b['name']
\* raises on an item without that key
ReportRaises(b) ==
    \/ b.kind # "list"
    \/ \E i \in 1..Len(b.items) : "name" \notin DOMAIN b.items[i]

\* lines 276-277 and 308-309: audio_path.unlink() unless files are kept
Unlinked(files, path, keep) == IF keep THEN files ELSE files \ {path}

\* lines 332-336: the next segment starts
MonitorNext ==
    /\ batchPc = "loop"
    /\ segment_number < MaxSegments
    /\ segment_number' = segment_number + 1
    /\ batchPc' = "capture"
    /\ UNCHANGED <<liveVars, keep_audio_files, webhook_url, disk, audio_path,
                   transcript, brands, posts, transcribed, outcomes>>

\* lines 264-267 with capture_audio_segment (lines 77-118): without
\* KEEP_AUDIO_FILES the file is created at line 86, before ffmpeg runs;
\* with it the file exists if ffmpeg wrote it.  The path is returned when
\* ffmpeg ended with code 0 and the file exists, None otherwise
CaptureSegment ==
    /\ batchPc = "capture"
    /\ \E ok \in BOOLEAN, wrote \in BOOLEAN :
          LET exists == IF keep_audio_files THEN wrote ELSE TRUE
          IN  /\ disk' = IF exists THEN disk \cup {segment_number} ELSE disk
              /\ IF ok /\ exists
                 THEN /\ audio_path' = segment_number
                      /\ batchPc' = "transcribe"
                      /\ UNCHANGED outcomes
                 ELSE /\ audio_path' = 0
                      /\ outcomes' = Append(outcomes, FALSE)
                      /\ batchPc' = "returned"
    /\ UNCHANGED <<liveVars, keep_audio_files, webhook_url, segment_number,
                   transcript, brands, posts, transcribed>>

\* lines 273-280: no transcript, or an empty one, removes the file and
\* returns False
TranscribeSegment ==
    /\ batchPc = "transcribe"
    /\ \E t \in Transcripts :
          /\ transcript' = t
          /\ IF t = None \/ t = ""
             THEN /\ disk' = Unlinked(disk, audio_path, keep_audio_files)
                  /\ outcomes' = Append(outcomes, FALSE)
                  /\ batchPc' = "returned"
                  /\ UNCHANGED transcribed
             ELSE /\ transcribed' = transcribed \cup {segment_number}
                  /\ batchPc' = "extract"
                  /\ UNCHANGED <<disk, outcomes>>
    /\ UNCHANGED <<liveVars, keep_audio_files, webhook_url, segment_number,
                   audio_path, brands, posts>>

\* line 284
ExtractSegment ==
    /\ batchPc = "extract"
    /\ \E response \in LlamaResponses : brands' = ExtractBrands(response)
    /\ batchPc' = "report"
    /\ UNCHANGED <<liveVars, keep_audio_files, webhook_url, segment_number,
                   disk, audio_path, transcript, posts, transcribed,
                   outcomes>>

\* lines 285-288: an exception raised here leaves process_segment and
\* run_monitor, which handles KeyboardInterrupt only (line 343): the
\* process ends with the traceback
ReportBrands ==
    /\ batchPc = "report"
    /\ batchPc' = IF ReportRaises(brands) THEN "crashed" ELSE "send"
    /\ UNCHANGED <<liveVars, keep_audio_files, webhook_url, segment_number,
                   disk, audio_path, transcript, brands, posts, transcribed,
                   outcomes>>

\* lines 291-305 with send_to_n8n (lines 230-250): one request when the
\* sink is configured, whose result is printed and dropped
SendSegment ==
    /\ batchPc = "send"
    /\ IF webhook_url
       THEN \E ok \in BOOLEAN :
                posts' = Append(posts, [segment_number |-> segment_number,
                                        transcript     |-> transcript,
                                        brands         |-> brands.items,
                                        ok             |-> ok])
       ELSE UNCHANGED posts
    /\ batchPc' = "cleanup"
    /\ UNCHANGED <<liveVars, keep_audio_files, webhook_url, segment_number,
                   disk, audio_path, transcript, brands, transcribed,
                   outcomes>>

\* lines 308-312
CleanupSegment ==
    /\ batchPc = "cleanup"
    /\ disk' = Unlinked(disk, audio_path, keep_audio_files)
    /\ outcomes' = Append(outcomes, TRUE)
    /\ batchPc' = "returned"
    /\ UNCHANGED <<liveVars, keep_audio_files, webhook_url, segment_number,
                   audio_path, transcript, brands, posts, transcribed>>

\* lines 337-341: back to the head of the loop
MonitorSleep ==
    /\ batchPc = "returned"
    /\ batchPc' = "loop"
    /\ UNCHANGED <<liveVars, keep_audio_files, webhook_url, segment_number,
                   disk, audio_path, transcript, brands, posts, transcribed,
                   outcomes>>

\* lines 343-347: Ctrl+C, at any point of the loop
MonitorInterrupt ==
    /\ batchPc \notin {"off", "stopped", "crashed"}
    /\ batchPc' = "stopped"
    /\ UNCHANGED <<liveVars, keep_audio_files, webhook_url, segment_number,
                   disk, audio_path, transcript, brands, posts, transcribed,
                   outcomes>>

ProcessSegment ==
    \/ CaptureSegment \/ TranscribeSegment \/ ExtractSegment
    \/ ReportBrands \/ SendSegment \/ CleanupSegment

RunMonitor == MonitorNext \/ MonitorSleep \/ MonitorInterrupt

\* ------------------------------------------------------ the specifications
\* Capture steps read and write only recorded_frames, recording_lock,
\* audio_data, frameNo and audioPc; message and checkpoint steps read and
\* write none of these.  The two sides of the pipeline meet in on_close and
\* in run(), which both specifications contain.  Each specification leaves
\* out the steps that its side never enables: without frames the export
\* returns at line 324, without records the final flush returns at line 283.

\* the transcript side: messages, checkpoints, close handling, run()
Next == Main \/ WsSession \/ WsFinalFlush \/ WsMessages \/ Checkpoint

Spec == Init /\ [][Next]_vars

\* the audio side: capture, close handling, run() with both of its
\* exception handlers.  RunUnexpected changes stop_event and mainPc as
\* RunInterrupt does and differs from it only in sending nothing to the
\* peer, so the transcript side goes without it.
NextCapture == Main \/ RunUnexpected \/ WsSession \/ WsWavExport \/ Capture

SpecCapture == Init /\ [][NextCapture]_vars

\* on_message applied to final Turns that carry every entity list, in a
\* session that can fail at any moment
NextEntities ==
    \/ RunOpenStream \/ OnOpen \/ OnError
    \/ (\E msg \in EntityMessages \cup {BeginMsg} : OnMessage(msg))
    \/ OnMessageCount

SpecEntities == Init /\ [][NextEntities]_vars

\* both sides together, for the threads that take the locks: sessions that
\* end by a connection error or close.  The handlers of run() take no lock;
\* they set stop_event, close the socket and let the process exit, which
\* only cuts short what the other threads do here.
NextLocks ==
    \/ RunOpenStream \/ RunWaitDone \/ RunFinallyStream \/ RunFinallyAudio
    \/ WsSession \/ WsFinalFlush \/ WsWavExport
    \/ (\E msg \in Messages : OnMessage(msg)) \/ OnMessageCount
    \/ Capture \/ Checkpoint

SpecLocks == Init /\ [][NextLocks]_vars

\* batch mode: run_monitor and process_segment
NextBatch == RunMonitor \/ ProcessSegment

SpecBatch == InitBatch /\ [][NextBatch]_vars

\* ------------------------------------------------------------- the claims
\* C1 (Spec): a non-final flush never clears a record that is not in the
\* snapshot it persisted: every record the clearing step removes from
\* transcript_data is in the output_data that flush wrote.
C1_FlushClearsOnlyPersisted ==
    [][(savePc = "sv_clear" /\ savePc' = "sv_reset") =>
           \A i \in 1..Len(transcript_data) :
               transcript_data[i] \notin Range(transcript_data') =>
                   transcript_data[i] \in Range(sv_output.transcripts)]_vars

\* C2 (Spec): while no checkpoint write has failed, no record is in two
\* checkpoint artifacts, periodic or final.
C2_NoRecordDuplicated ==
    ~writeFailed =>
        \A i, j \in 1..Len(json_files) :
            i < j => Range(json_files[i].transcripts)
                         \cap Range(json_files[j].transcripts) = {}

\* C3 (SpecCapture): when the process has exited and a raw-audio file was
\* written, its payload is every frame the capture thread appended during
\* the session, in capture order.
C3_WavHoldsFullSession ==
    (mainPc = "exit" /\ wav_files # <<>>) => wav_files[1] = recorded_frames

\* C4 (SpecCapture): when the process exits after the connection was opened
\* and the operator interrupted the session, save_json_file(final=True) and
\* save_wav_file have each run to completion exactly once.
C4_FinalSavesRunOnce ==
    (mainPc = "exit" /\ opened /\ interrupted) =>
        (finalFlushRuns = 1 /\ wavExportRuns = 1)

\* C5 (SpecCapture): when the process exits after the input stream was
\* opened, stream.close() and audio.terminate() have each been called
\* exactly once, counting on_close and the finally block of run().
C5_DeviceReleasedOnce ==
    (mainPc = "exit" /\ wsPc # "unstarted") =>
        (closeCalls = 1 /\ terminateCalls = 1)

\* C6 (Spec): a Turn that is not formatted, or whose text has no non-blank
\* character, leaves the buffer and the count as they were; a formatted
\* Turn with text appends exactly one record carrying that text, and the
\* handler then raises the count by exactly one.
HasText(t) == \E i \in 1..Len(t) : t[i] # " "

C6_TurnCommitRule ==
    [][/\ \A msg \in Messages :
              (msg.type = "Turn" /\ OnMessage(msg)) =>
                  IF msg.turn_is_formatted /\ HasText(msg.transcript)
                  THEN /\ Len(transcript_data') = Len(transcript_data) + 1
                       /\ SubSeq(transcript_data', 1, Len(transcript_data))
                              = transcript_data
                       /\ transcript_data'[Len(transcript_data')].transcript
                              = msg.transcript
                       /\ wsPc' = "msg_count"
                  ELSE UNCHANGED <<transcript_data, transcript_count, wsPc>>
       /\ (wsPc = "msg_count" /\ wsPc' # "msg_count") =>
              /\ transcript_count' = transcript_count + 1
              /\ UNCHANGED transcript_data]_vars

C6_Witness ==
    /\ wsPc = "recv"
    /\ transcript_count = 1
    /\ Len(transcript_data) = 1
    /\ transcript_data[1].transcript = <<" ", "b", " ", "c">>

\* C7 (Spec): the buffer holds the committed records in arrival order: it is
\* always the tail of the sequence of final Turns with text that on_message
\* has handled, and it is that whole sequence of N records while no
\* periodic flush has cleared it.
C7_BufferIsArrivals ==
    /\ Len(transcript_data) <= Len(arrived)
    /\ transcript_data =
           SubSeq(arrived, Len(arrived) - Len(transcript_data) + 1,
                  Len(arrived))
    /\ clears = 0 => transcript_data = arrived

C7_Witness ==
    /\ clears = 0
    /\ wsPc = "recv"
    /\ Len(transcript_data) = BurstLen + 1
    /\ transcript_data[BurstLen + 1].transcript = <<" ", "b", " ", "c">>

\* C8 as stated (Spec): at every poll a flush fires exactly when the time
\* since the last flush has reached the time threshold or the count has
\* reached the count threshold.
C8_FiresExactlyWhenDue ==
    [][polls' = polls + 1 =>
           ((savePc' = "sv_snap") <=>
                \/ now' - last_save_time >= AUTO_SAVE_INTERVAL
                \/ transcript_count >= AUTO_SAVE_TRANSCRIPT_COUNT)]_vars

\* C8 as amended (Spec): at every poll, at least POLL_SLEEP after the one
\* before, a flush fires exactly when a threshold is reached and the buffer
\* holds at least one record.
C8_FiresWhenDueAndNonEmpty ==
    [][polls' = polls + 1 =>
           /\ now' >= now + POLL_SLEEP
           /\ (savePc' = "sv_snap") <=>
                  /\ \/ now' - last_save_time >= AUTO_SAVE_INTERVAL
                     \/ transcript_count >= AUTO_SAVE_TRANSCRIPT_COUNT
                  /\ transcript_data # <<>>]_vars

\* the count threshold fires a flush before the time threshold is reached
C8_Witness ==
    /\ savePc = "sv_snap"
    /\ current_time - last_save_time < AUTO_SAVE_INTERVAL
    /\ transcript_count >= AUTO_SAVE_TRANSCRIPT_COUNT

\* C9 (Spec): the step that follows a successful non-final write takes the
\* free transcript lock and leaves the buffer empty and the count 0
\* together; the flush then sets last_save_time to the clock reading of the
\* poll that fired it, so the time trigger is next due AUTO_SAVE_INTERVAL
\* after that reading.
FlushWritten == \E i \in 1..Len(json_files) : json_files[i] = sv_output

C9_FlushResets ==
    [][/\ (savePc = "sv_clear" /\ savePc' # "sv_clear") =>
              /\ transcript_lock = None
              /\ transcript_data' = <<>>
              /\ transcript_count' = 0
       /\ (savePc = "sv_reset" /\ savePc' # "sv_reset" /\ FlushWritten) =>
              /\ last_save_time' = current_time
              /\ \A t \in 0..(current_time + 2 * AUTO_SAVE_INTERVAL) :
                     (t - last_save_time' >= AUTO_SAVE_INTERVAL)
                         <=> (t >= current_time + AUTO_SAVE_INTERVAL)]_vars

C9_Witness ==
    /\ savePc = "loop"
    /\ clears = 1
    /\ transcript_data = <<>>
    /\ transcript_count = 0
    /\ last_save_time = current_time
    /\ last_save_time > 0

\* C10 (Spec): the final flush snapshots the whole buffer into an artifact
\* marked is_final, writes that artifact, and none of its steps changes the
\* buffer or the count.
C10_FinalFlushKeepsBuffer ==
    [][/\ (wsPc = "cl_json" /\ wsPc' # "cl_json") =>
              UNCHANGED <<transcript_data, transcript_count>>
       /\ (wsPc = "cl_json_snap" /\ wsPc' # "cl_json_snap") =>
              /\ ws_output'.is_final
              /\ ws_output'.transcripts = transcript_data
              /\ ws_output'.total_transcripts = Len(transcript_data)
              /\ UNCHANGED <<transcript_data, transcript_count>>
       /\ (wsPc = "cl_json_write" /\ wsPc' # "cl_json_write") =>
              /\ UNCHANGED <<transcript_data, transcript_count>>
              /\ \/ json_files' = Append(json_files, ws_output)
                 \/ writeFailed' /\ json_files' = json_files]_vars

C10_Witness ==
    /\ wsPc = "cl_wav"
    /\ json_files # <<>>
    /\ json_files[Len(json_files)].is_final
    /\ json_files[Len(json_files)].transcripts = transcript_data
    /\ transcript_data # <<>>
    /\ transcript_count = Len(transcript_data)

\* C11 (Spec): a record that was in the snapshot of a final checkpoint whose
\* write failed is not dropped: once that save_json_file call has returned
\* without writing its artifact, each record of its snapshot is still in
\* transcript_data or is held by a checkpoint artifact that was written.
C11_FailedSnapshotKept ==
    (/\ finalFlushRuns > 0
     /\ ws_output # NoOutput
     /\ ws_output \notin Range(json_files))
        => \A r \in Range(ws_output.transcripts) :
               \/ r \in Range(transcript_data)
               \/ \E i \in 1..Len(json_files) :
                      r \in Range(json_files[i].transcripts)

\* C12 (SpecCapture): once stop_event is set the capture loop finishes at
\* most the iteration in flight: with the flag set it reads at most one
\* frame, appends at most one frame and sends at most one frame, ever.
C12_OneFrameAfterStop ==
    /\ lateFrames.reads <= 1
    /\ lateFrames.appends <= 1
    /\ lateFrames.sends <= 1

\* the flag was set between the loop test and the read; the iteration in
\* flight read, appended and sent its frame, and the loop has exited
C12_Witness ==
    /\ stop_event
    /\ audioPc = "done"
    /\ lateFrames = [reads |-> 1, appends |-> 1, sends |-> 1]

\* C13 (SpecCapture): whichever handler of run() ends the session, the
\* operator interrupt or an unexpected error, a connection that is still open
\* when run() closes it locally is closed out of the grace period that
\* follows the sending of {"type": "Terminate"}.
C13_TerminateBeforeLocalClose ==
    [][(mainPc # "int_join" /\ mainPc' = "int_join" /\ connected)
           => mainPc = "int_grace"]_vars

\* the steps run() takes by itself on its way to the final cleanup
MainProceeds ==
    RunWaitDone \/ RunClose \/ RunJoin \/ RunFinallyStream \/ RunFinallyAudio

\* the connection has closed: the websocket thread is in on_close or ended
ConnectionClosed ==
    wsPc \notin {"unstarted", "connecting", "recv", "msg_count"}

\* C14 (SpecCapture): shutdown never waits on a worker without a bound:
\* once stop_event is set or the connection has closed, the main thread,
\* until it has exited, can always take its next step towards the final
\* cleanup, whatever step the workers take or fail to take.
C14_MainNeverBlockedOnWorker ==
    (mainPc \notin {"start", "exit"} /\ (stop_event \/ ConnectionClosed))
        => ENABLED MainProceeds

\* the spellings that equal a brand type when letter case is ignored
BrandSpellings ==
    {"organization", "Organization", "ORGANIZATION",
     "product", "Product", "PRODUCT",
     "brand", "Brand", "BRAND",
     "company", "Company", "COMPANY"}

IsBrandEntity(e) == e.entity_type \in BrandSpellings

\* C15 (SpecEntities): the record committed for a final Turn keeps the
\* Turn's entity list as it came (the committing step is on_message applied
\* to the Turn that carries the record's entity list), and its brand list
\* names exactly the entities whose type is organization, product, brand or
\* company in any letter case, in their original order.
C15_BrandsAreBrandTypedEntities ==
    [][(wsPc = "recv" /\ wsPc' = "msg_count") =>
           LET r == transcript_data'[Len(transcript_data')]
               kept == SelectSeq(r.entities, IsBrandEntity)
           IN  /\ OnMessage(Turn(<<"a">>, TRUE, r.entities))
               /\ Len(r.brands) = Len(kept)
               /\ \A i \in 1..Len(kept) :
                      /\ r.brands[i].name = kept[i].text
                      /\ r.brands[i].confidence = kept[i].confidence
                      /\ r.brands[i].type \in BrandTypes]_vars

\* a record whose entities are a person and a company in capitals: the
\* brand list holds the company alone
C15_Witness ==
    \E i \in 1..Len(transcript_data) :
        /\ Len(transcript_data[i].entities) = 2
        /\ transcript_data[i].entities[1].entity_type = "PERSON"
        /\ transcript_data[i].entities[2].entity_type = "Company"
        /\ Len(transcript_data[i].brands) = 1
        /\ transcript_data[i].brands[1].name = "Elm"

\* process_segment has ended for segment n, by a return or by an exception
SegmentEnded(n) ==
    \/ n < segment_number
    \/ n = segment_number /\ batchPc \in {"returned", "loop", "crashed"}

PostsOf(n) == {i \in 1..Len(posts) : posts[i].segment_number = n}

\* C16 (SpecBatch): with KEEP_AUDIO_FILES off, when process_segment has
\* returned, on whichever path, the audio file of its segment is not on disk.
C16_NoAudioFileLeft ==
    (batchPc = "returned" /\ ~keep_audio_files) => segment_number \notin disk

\* C17 (SpecBatch): no failure of a remote call leaves process_segment as an
\* exception: the monitor loop is never ended by anything but the operator.
C17_NoFailurePropagates == batchPc # "crashed"

\* C18 (SpecBatch): once process_segment has ended for a segment, the sink
\* has been sent that segment's record exactly once if its capture and its
\* transcription succeeded and a sink is configured, and never otherwise;
\* the request is made before the next segment starts, and a failed request
\* neither repeats nor changes the value returned for the segment.
C18_ForwardedExactlyOnce ==
    /\ \A n \in 1..segment_number :
           SegmentEnded(n) =>
               Cardinality(PostsOf(n)) =
                   IF n \in transcribed /\ webhook_url THEN 1 ELSE 0
    /\ \A i \in 1..Len(posts) :
           /\ posts[i].segment_number \in transcribed
           /\ posts[i].segment_number <= Len(outcomes)
                  => outcomes[posts[i].segment_number]

\* C19 (SpecCapture): no lock is held across an I/O call: while the
\* websocket thread writes a checkpoint file or the raw-audio file it holds
\* neither lock, and while the capture thread reads the device or sends a
\* frame the recording lock is not taken by it.
C19_NoLockAcrossIO ==
    /\ wsPc \in {"cl_json_write", "cl_wav_write"} =>
           (transcript_lock # "ws" /\ recording_lock # "ws")
    /\ audioPc \in {"read", "send"} => recording_lock # "audio"
    /\ savePc = "sv_write" => transcript_lock # "saver"

\* C20 (Spec): the checkpoint thread reads the transcript buffer and its
\* count only under transcript_lock: its steps that read them, the trigger
\* test of a poll (lines 266-271) and the report after a write (line 308),
\* are never taken while the websocket thread is inside its critical
\* section of lines 174-176.
C20_ReadsUnderLock ==
    [][(\/ polls' # polls
        \/ savePc = "sv_write" /\ savePc' = "sv_clear")
           => transcript_lock # "ws"]_vars

\* C21 (Spec): whenever transcript_lock is free, transcript_count equals
\* the number of records in transcript_data, and both equal the number of
\* final Turns with text handled since a non-final flush last cleared the
\* buffer (since the start of the session when none has).
C21_CountIsBufferLength ==
    transcript_lock = None =>
        /\ transcript_count = Len(transcript_data)
        /\ transcript_count = sinceClear

\* a Turn handled after a periodic flush cleared the burst: one record,
\* counted once
C21_Witness ==
    /\ transcript_lock = None
    /\ clears > 0
    /\ Len(arrived) = BurstLen + 1
    /\ transcript_count = 1
    /\ Len(transcript_data) = 1

\* C22 (Spec): last_save_time is reset only after a non-final flush that
\* wrote its artifact: when auto_save_loop comes back from a
\* save_json_file(final=False) call whose artifact is in no file,
\* last_save_time stays as it was.
C22_TimerKeptOnFailedFlush ==
    [][(savePc = "sv_reset" /\ savePc' = "loop"
            /\ sv_output \notin Range(json_files))
           => last_save_time' = last_save_time]_vars

\* save_json_file(final=True) has been called by on_close (line 212)
FinalFlushStarted ==
    wsPc \in {"cl_json_snap", "cl_json_write"} \/ finalFlushRuns > 0

\* C23 (Spec): once the final flush has started, no poll of the checkpoint
\* loop fires a flush, no non-final artifact is written and the buffer is
\* not cleared.
C23_NoPeriodicFlushAfterFinal ==
    [][FinalFlushStarted =>
           /\ (polls' # polls => savePc' # "sv_snap")
           /\ (savePc = "sv_write" => json_files' = json_files)
           /\ clears' = clears]_vars

\* C24 (SpecLocks): no thread holds transcript_lock and recording_lock
\* together; a lock is held only inside the with block that took it, so it
\* is released on every way out of the block; and while the process runs
\* the holder of a lock can always take the step that releases it, without
\* waiting for anything, so no thread waits for a lock for ever.
C24_NoLockDeadlock ==
    /\ ~(transcript_lock # None /\ recording_lock # None)
    /\ transcript_lock # None => (transcript_lock = "ws" /\ wsPc = "msg_count")
    /\ recording_lock # None =>
           (recording_lock = "ws" /\ wsPc = "cl_wav_write")
    /\ (Running /\ transcript_lock # None) => ENABLED OnMessageCount
    /\ (Running /\ recording_lock # None) => ENABLED CloseWavWrite

\* the capture thread waits at line 115 for the recording lock, which the
\* close handler holds for the export, in a session whose message handler
\* and checkpoint loop have used the transcript lock
C24_Witness ==
    /\ recording_lock = "ws"
    /\ audioPc = "append"
    /\ arrived # <<>>
    /\ clears > 0
====
